---- MODULE Spec2Model ----
(***************************************************************************)
(* OAuth authorization flow of shopify-api-js: begin and callback, with    *)
(* the signed state cookie carried by the client, the token exchange done  *)
(* by the HTTP collaborator and the Session built by createSession.        *)
(*                                                                         *)
(* Strings are sequences of string tokens; concatenation is \o.  The       *)
(* absent value (undefined, null, a missing query parameter or cookie) is  *)
(* the empty sequence <<>>.  An optional record is <<>> or <<r>>.           *)
(***************************************************************************)
EXTENDS Integers, Sequences, FiniteSets, TLC

\* ------------------------------------------------------------------ bounds
MaxNonces == 1        \* number of begin calls that issue a nonce
MaxUuids == 2         \* number of uuidv4() session ids generated
MaxFlows == 2         \* number of flows begun at the same time
MaxTicks == 1         \* number of clock advances

\* ------------------------------------------------------- program constants
StateCookieTtlMs == 60000
MsPerSecond == 1000
FoundStatus == 302

STATE_COOKIE_NAME == "shopify_app_state"
SESSION_COOKIE_NAME == "shopify_app_session"

\* the configuration consumed by the flow; isPrivateApp and isEmbeddedApp
\* are chosen by the host application and fixed at construction
ConfigInterface ==
  [apiKey : {<<"test_key">>},
   apiSecretKey : {"test_secret_key"},
   scopes : {<<"read_products", "write_orders">>},
   hostScheme : {"https"},
   hostName : {"my-test-app.myshopify.io"},
   apiVersion : {"2022-10"},
   isEmbeddedApp : BOOLEAN,
   isPrivateApp : BOOLEAN]

\* ------------------------------------------------------------ input values
Browsers == {"b1", "b2"}
Paths == {"/auth/callback", "/other"}
ValidShops == {"shop1.myshopify.io"}
InvalidShops == {"evil.example.com"}
Shops == ValidShops \cup InvalidShops
ForgedKey == "attacker_key"
BogusState == <<"bogus">>
ExpiresInValues == {86400}
UserIds == {<<"999">>}
AuthCode == <<"code1">>
Timestamp == <<"1">>

IsOnlineParams == {"undefined", "true", "false"}

Str(tok) == <<tok>>
Absent == <<>>
Date(ms) == [valid |-> TRUE, ms |-> ms]
\* new Date(NaN)
InvalidDate == [valid |-> FALSE, ms |-> 0]

\* the configuration of the running app: everything but the two mode
\* switches is fixed
Configs == ConfigInterface

\* --------------------------------------------------------- collaborators
\* nonce(): the n-th value generated, never repeated
nonce(n) == <<"nonce", ToString(n)>>

\* uuidv4(): the n-th identifier generated
uuidv4(n) == <<"uuid", ToString(n)>>

\* sanitizeShop(config)(shop, true): the shop when it has the platform's
\* domain syntax; Absent stands for the InvalidShopError it throws
sanitizeShop(shop) ==
  IF shop \in {Str(s) : s \in ValidShops} THEN shop ELSE Absent

\* safeCompare: constant-time equality
safeCompare(a, b) == a = b

\* the MAC of a cookie value under a key
createSHA256HMAC(key, value) == [key |-> key, value |-> value]

\* Cookies.setAndSign: the Set-Cookie entry of a value and its signature
\* under the first key
setAndSign(keys, name, value, opts) ==
  [name |-> name, value |-> value,
   sig |-> createSHA256HMAC(keys[1], value),
   expires |-> opts.expires, path |-> opts.path,
   sameSite |-> opts.sameSite, secure |-> opts.secure]

\* Cookies.deleteCookie: the Set-Cookie entry that expires the cookie
deleteCookie(name) ==
  [name |-> name, value |-> Absent,
   sig |-> createSHA256HMAC("", Absent),
   expires |-> <<Date(0)>>, path |-> "",
   sameSite |-> "", secure |-> FALSE]

IsDeletion(entry) == entry.value = Absent

\* Cookies.getAndVerify: the value of the request's cookie when its
\* signature matches one of the keys, Absent otherwise
getAndVerify(keys, reqCookie) ==
  IF reqCookie = <<>> THEN Absent
  ELSE IF reqCookie[1].value = Absent THEN Absent
  ELSE IF \E i \in 1..Len(keys) :
            reqCookie[1].sig = createSHA256HMAC(keys[i], reqCookie[1].value)
       THEN reqCookie[1].value
       ELSE Absent

\* generateLocalHmac: the MAC of the query without its hmac parameter
generateLocalHmac(secret, query) ==
  [key |-> secret,
   msg |-> [shop |-> query.shop, code |-> query.code,
            state |-> query.state, timestamp |-> query.timestamp]]

\* validateHmac(config)(query)
validateHmac(config, query) ==
  /\ query.hmac # <<>>
  /\ safeCompare(query.hmac[1], generateLocalHmac(config.apiSecretKey, query))

\* AuthScopes.toString: the scopes joined by commas
RECURSIVE scopesToString(_)
scopesToString(scopes) ==
  IF Len(scopes) <= 1 THEN scopes
  ELSE <<Head(scopes), ",">> \o scopesToString(Tail(scopes))

\* getOfflineId(config)(shop)
getOfflineId(shop) == <<"offline_">> \o shop

\* getJwtSessionId(config)(shop, userId)
getJwtSessionId(shop, userId) == shop \o <<"_">> \o userId

\* ------------------------------------------------------- result of a call
\* what one invocation produced: the error thrown ("none" when it returned),
\* the steps it executed in order, the token-exchange requests it sent, the
\* response (status, Set-Cookie entries, Location) and the Session
NoResult ==
  [op |-> "init", from |-> "none", error |-> "none", message |-> Absent,
   steps |-> <<>>, posts |-> <<>>, status |-> 0, headers |-> {},
   location |-> <<>>, session |-> <<>>, stateFromCookie |-> Absent,
   beginParams |-> <<>>, request |-> <<>>, postResponse |-> <<>>,
   at |-> 0, replayed |-> FALSE, failedBefore |-> FALSE, idSeen |-> FALSE]

Thrown(op, error, message, steps, posts) ==
  [NoResult EXCEPT !.op = op, !.error = error, !.message = message,
                   !.steps = steps, !.posts = posts]

\* mutant: the private-app check never throws
throwIfPrivateApp_Off(isPrivateApp) == FALSE

\* throwIfPrivateApp
throwIfPrivateApp(isPrivateApp) == isPrivateApp

PrivateAppMessage == <<"Cannot perform OAuth for private apps">>

\* ------------------------------------------------------------------ begin
\* mutant: the redirect carries a state other than the one signed
beginQuery_OtherState(config, callbackPath, isOnline, state) ==
  [client_id |-> config.apiKey,
   scope |-> scopesToString(config.scopes),
   redirect_uri |-> <<config.hostScheme, "://", config.hostName, callbackPath>>,
   state |-> <<"nonce", "0">>,
   grant_options |-> IF isOnline THEN <<"per-user">> ELSE <<>>]

\* mutant: per-user access is requested for offline flows instead
beginQuery_GrantSwapped(config, callbackPath, isOnline, state) ==
  [client_id |-> config.apiKey,
   scope |-> scopesToString(config.scopes),
   redirect_uri |-> <<config.hostScheme, "://", config.hostName, callbackPath>>,
   state |-> state,
   grant_options |-> IF isOnline THEN <<>> ELSE <<"per-user">>]

beginQuery(config, callbackPath, isOnline, state) ==
  [client_id |-> config.apiKey,
   scope |-> scopesToString(config.scopes),
   redirect_uri |-> <<config.hostScheme, "://", config.hostName, callbackPath>>,
   state |-> state,
   grant_options |-> IF isOnline THEN <<"per-user">> ELSE <<>>]

\* mutant: the state cookie is set for the whole site
stateCookie_RootPath(config, params, state, nowMs) ==
  setAndSign(<<config.apiSecretKey>>, STATE_COOKIE_NAME, state,
             [expires |-> <<Date(nowMs + StateCookieTtlMs)>>,
              sameSite |-> "lax", secure |-> TRUE, path |-> "/"])

\* the state cookie begin sets: signed, for callbackPath, for 60 seconds
stateCookie(config, params, state, nowMs) ==
  setAndSign(<<config.apiSecretKey>>, STATE_COOKIE_NAME, state,
             [expires |-> <<Date(nowMs + StateCookieTtlMs)>>,
              sameSite |-> "lax", secure |-> TRUE,
              path |-> params.callbackPath])

\* mutant: begin takes the shop as it is given
begin_ShopUnchecked(config, params, state, nowMs) ==
  IF throwIfPrivateApp(config.isPrivateApp)
  THEN Thrown("begin", "PrivateAppError", PrivateAppMessage,
              <<"throwIfPrivateApp">>, <<>>)
  ELSE [NoResult EXCEPT
          !.op = "begin",
          !.steps = <<"throwIfPrivateApp", "sanitizeShop", "nonce",
                      "setAndSign", "redirect">>,
          !.status = FoundStatus,
          !.headers = {stateCookie(config, params, state, nowMs)},
          !.location =
            <<[scheme |-> "https", host |-> params.shop,
               path |-> "/admin/oauth/authorize",
               query |-> beginQuery(config, params.callbackPath,
                                    params.isOnline, state)]>>]

begin(config, params, state, nowMs) ==
  IF throwIfPrivateApp(config.isPrivateApp)
  THEN Thrown("begin", "PrivateAppError", PrivateAppMessage,
              <<"throwIfPrivateApp">>, <<>>)
  ELSE
    LET cleanShop == sanitizeShop(params.shop) IN
    IF cleanShop = Absent
    THEN Thrown("begin", "InvalidShopError", <<"Received invalid shop argument">>,
                <<"throwIfPrivateApp", "sanitizeShop">>, <<>>)
    ELSE
      LET cookie == stateCookie(config, params, state, nowMs)
          query == beginQuery(config, params.callbackPath, params.isOnline, state)
          redirectUrl == [scheme |-> "https", host |-> cleanShop,
                          path |-> "/admin/oauth/authorize", query |-> query]
      IN [NoResult EXCEPT
            !.op = "begin",
            !.steps = <<"throwIfPrivateApp", "sanitizeShop", "nonce",
                        "setAndSign", "redirect">>,
            !.status = FoundStatus,
            !.headers = {cookie},
            !.location = <<redirectUrl>>]

\* --------------------------------------------------------------- callback
\* mutant: the state parameter is not compared with the cookie
validQuery_HmacOnly(config, query, stateFromCookie) ==
  validateHmac(config, query)

\* mutant: the hmac of the query is not looked at
validQuery_StateOnly(config, query, stateFromCookie) ==
  safeCompare(query.state, stateFromCookie)

\* validQuery
validQuery(config, query, stateFromCookie) ==
  /\ validateHmac(config, query)
  /\ safeCompare(query.state, stateFromCookie)

\* the body of the token-exchange response without access_token and scope
restOf(body) ==
  [expires_in |-> body.expires_in, associated_user |-> body.associated_user]

\* mutant: the online Session is built without onlineAccessInfo
onlineSession_NoAccessInfo(config, body, shop, stateFromCookie, nowMs, uuid) ==
  [id |-> IF config.isEmbeddedApp
          THEN getJwtSessionId(shop, body.associated_user[1].id) ELSE uuid,
   shop |-> shop, state |-> stateFromCookie,
   isOnline |-> TRUE, accessToken |-> body.access_token,
   scope |-> body.scope,
   expires |-> <<IF body.expires_in = <<>> THEN InvalidDate
                 ELSE Date(nowMs + body.expires_in[1] * MsPerSecond)>>,
   onlineAccessInfo |-> <<>>]

\* mutant: expires_in is added to the clock as if it were milliseconds
onlineSession_ExpiresUnscaled(config, body, shop, stateFromCookie, nowMs, uuid) ==
  [id |-> IF config.isEmbeddedApp
          THEN getJwtSessionId(shop, body.associated_user[1].id) ELSE uuid,
   shop |-> shop, state |-> stateFromCookie,
   isOnline |-> TRUE, accessToken |-> body.access_token,
   scope |-> body.scope,
   expires |-> <<IF body.expires_in = <<>> THEN InvalidDate
                 ELSE Date(nowMs + body.expires_in[1])>>,
   onlineAccessInfo |-> <<restOf(body)>>]

\* mutant: the id is derived from shop and user whatever isEmbeddedApp says
onlineSession_JwtIdAlways(config, body, shop, stateFromCookie, nowMs, uuid) ==
  [id |-> getJwtSessionId(shop, body.associated_user[1].id),
   shop |-> shop, state |-> stateFromCookie,
   isOnline |-> TRUE, accessToken |-> body.access_token,
   scope |-> body.scope,
   expires |-> <<IF body.expires_in = <<>> THEN InvalidDate
                 ELSE Date(nowMs + body.expires_in[1] * MsPerSecond)>>,
   onlineAccessInfo |-> <<restOf(body)>>]

\* createSession, the branch of a response with an associated user
onlineSession(config, body, shop, stateFromCookie, nowMs, uuid) ==
  LET rest == restOf(body)
      sessionExpiration ==
        IF body.expires_in = <<>> THEN InvalidDate
        ELSE Date(nowMs + body.expires_in[1] * MsPerSecond)
      sessionId ==
        IF config.isEmbeddedApp
        THEN getJwtSessionId(shop, rest.associated_user[1].id)
        ELSE uuid
  IN [id |-> sessionId, shop |-> shop, state |-> stateFromCookie,
      isOnline |-> TRUE, accessToken |-> body.access_token,
      scope |-> body.scope, expires |-> <<sessionExpiration>>,
      onlineAccessInfo |-> <<rest>>]

\* mutant: the offline id is the bare shop
offlineSession_BareShopId(body, shop, stateFromCookie) ==
  [id |-> shop, shop |-> shop, state |-> stateFromCookie,
   isOnline |-> FALSE, accessToken |-> body.access_token,
   scope |-> body.scope, expires |-> <<>>, onlineAccessInfo |-> <<>>]

\* createSession, the branch of a response without an associated user
offlineSession(body, shop, stateFromCookie) ==
  [id |-> getOfflineId(shop), shop |-> shop, state |-> stateFromCookie,
   isOnline |-> FALSE, accessToken |-> body.access_token,
   scope |-> body.scope, expires |-> <<>>, onlineAccessInfo |-> <<>>]

\* createSession
createSession(config, body, shop, stateFromCookie, nowMs, uuid) ==
  LET associatedUser == body.associated_user
      isOnline == associatedUser # Absent
  IN IF isOnline
     THEN onlineSession(config, body, shop, stateFromCookie, nowMs, uuid)
     ELSE offlineSession(body, shop, stateFromCookie)

CookieNotFoundMessage(shop) ==
  <<"Cannot complete OAuth process. Could not find an OAuth cookie for shop url: ">>
    \o shop

\* mutant: a missing state cookie is let through
cookieNotFound_Never(stateFromCookie) == FALSE

\* the test `!stateFromCookie` of callback
cookieNotFound(stateFromCookie) == stateFromCookie = Absent

\* mutant: the state cookie is not deleted
callbackHeaders_NoDeletion(config, session) ==
  IF config.isEmbeddedApp THEN {}
  ELSE {setAndSign(<<config.apiSecretKey>>, SESSION_COOKIE_NAME, session.id,
                   [expires |-> session.expires, sameSite |-> "lax",
                    secure |-> TRUE, path |-> ""])}

\* mutant: the session cookie is written for embedded apps too
callbackHeaders_SessionAlways(config, session) ==
  {deleteCookie(STATE_COOKIE_NAME),
   setAndSign(<<config.apiSecretKey>>, SESSION_COOKIE_NAME, session.id,
              [expires |-> session.expires, sameSite |-> "lax",
               secure |-> TRUE, path |-> ""])}

\* the Set-Cookie entries callback returns: the deletion of the state cookie
\* and, unless the app is embedded, the signed session id
callbackHeaders(config, session) ==
  {deleteCookie(STATE_COOKIE_NAME)} \cup
  (IF config.isEmbeddedApp THEN {}
   ELSE {setAndSign(<<config.apiSecretKey>>, SESSION_COOKIE_NAME, session.id,
                    [expires |-> session.expires, sameSite |-> "lax",
                     secure |-> TRUE, path |-> ""])})

\* mutant: the deprecated isOnline argument decides the access mode
completeCallback_UsesParam(config, request, state, shop, postResponse, nowMs, uuid) ==
  LET body == IF request.isOnline = "false"
              THEN [postResponse.body EXCEPT !.associated_user = <<>>]
              ELSE postResponse.body
      session == createSession(config, body, shop, state, nowMs, uuid)
  IN [NoResult EXCEPT
        !.op = "callback",
        !.steps = <<"createSession">>
                    \o (IF config.isEmbeddedApp THEN <<>> ELSE <<"setAndSign">>),
        !.headers = callbackHeaders(config, session),
        !.session = <<session>>]

\* callback from the answer of the token exchange on: the Session, the
\* session cookie and the returned value
completeCallback(config, request, state, shop, postResponse, nowMs, uuid) ==
  LET session == createSession(config, postResponse.body, shop, state, nowMs, uuid)
  IN [NoResult EXCEPT
        !.op = "callback",
        !.steps = <<"createSession">>
                    \o (IF config.isEmbeddedApp THEN <<>> ELSE <<"setAndSign">>),
        !.headers = callbackHeaders(config, session),
        !.session = <<session>>]

\* mutant: the state cookie is read without verifying its signature
readStateCookie_Unverified(config, request) ==
  IF request.cookie = <<>> THEN Absent ELSE request.cookie[1].value

\* the state callback reads from the request: the value of the state cookie
\* if its signature verifies under the app secret
readStateCookie(config, request) ==
  getAndVerify(<<config.apiSecretKey>>, request.cookie)

\* mutant: an error of the token exchange is swallowed
postFailed_Swallowed(postResponse) == FALSE

\* `await client.post(postParams)` throws what the HTTP collaborator raises
postFailed(postResponse) == postResponse.kind = "error"

\* mutant: the token-exchange request is sent a second time
postRequests_Retried(postParams) == <<postParams, postParams>>

\* the requests callback hands to the HTTP collaborator: one client.post
postRequests(postParams) == <<postParams>>

\* callback: request = [cookie, query, isOnline], postResponse is what the
\* HTTP collaborator answers if the token exchange is reached
callback(config, request, postResponse, nowMs, uuid) ==
  IF throwIfPrivateApp(config.isPrivateApp)
  THEN Thrown("callback", "PrivateAppError", PrivateAppMessage,
              <<"throwIfPrivateApp">>, <<>>)
  ELSE
    LET query == request.query
        shop == query.shop
        stateFromCookie == readStateCookie(config, request)
        s1 == <<"throwIfPrivateApp", "getAndVerify", "deleteCookie">>
    IN
    IF cookieNotFound(stateFromCookie)
    THEN Thrown("callback", "CookieNotFound", CookieNotFoundMessage(shop),
                s1, <<>>)
    ELSE IF ~validQuery(config, query, stateFromCookie)
    THEN [Thrown("callback", "InvalidOAuthError", <<"Invalid OAuth callback.">>,
                 s1 \o <<"validQuery">>, <<>>)
            EXCEPT !.stateFromCookie = stateFromCookie]
    ELSE
      LET body == [client_id |-> config.apiKey,
                   client_secret |-> config.apiSecretKey,
                   code |-> query.code]
          cleanShop == sanitizeShop(query.shop)
          s2 == s1 \o <<"validQuery", "sanitizeShop">>
      IN
      IF cleanShop = Absent
      THEN [Thrown("callback", "InvalidShopError",
                   <<"Received invalid shop argument">>, s2, <<>>)
              EXCEPT !.stateFromCookie = stateFromCookie]
      ELSE
        LET postParams == [domain |-> cleanShop,
                           path |-> "/admin/oauth/access_token",
                           type |-> "application/json", data |-> body]
        IN
        IF postFailed(postResponse)
        THEN [Thrown("callback", "HttpRequestError",
                     <<"Failed to make Shopify HTTP request">>,
                     s2 \o <<"post">>, postRequests(postParams))
                EXCEPT !.stateFromCookie = stateFromCookie,
                       !.postResponse = <<postResponse>>]
        ELSE
          LET r == completeCallback(config, request, stateFromCookie,
                                    cleanShop, postResponse, nowMs, uuid)
          IN [r EXCEPT !.steps = s2 \o <<"post">> \o @,
                       !.posts = postRequests(postParams),
                       !.stateFromCookie = stateFromCookie,
                       !.postResponse = <<postResponse>>]

\* ---------------------------------------------------------------- inputs
\* the answers of the HTTP collaborator to POST /admin/oauth/access_token
NoBody ==
  [access_token |-> Absent, scope |-> Absent, expires_in |-> <<>>,
   associated_user |-> <<>>]
OfflineBody == [NoBody EXCEPT !.access_token = <<"tok">>,
                              !.scope = <<"read_products">>]
OnlineBodies ==
  {[OfflineBody EXCEPT !.expires_in = <<e>>, !.associated_user = <<[id |-> u]>>] :
     e \in ExpiresInValues, u \in UserIds}
Bodies == {NoBody, OfflineBody} \cup OnlineBodies
ErrorResponse == [kind |-> "error", body |-> NoBody]
PostResponses == {ErrorResponse} \cup {[kind |-> "ok", body |-> b] : b \in Bodies}

QueryParams == {"shop", "code", "state", "hmac", "timestamp"}

\* the callback query with the given shop and state, without the parameter
\* `missing` ("none": complete), its hmac computed by the platform with the
\* app secret ("platform") or by somebody else with another key ("forged")
AuthQuery(shop, state, hmacKind, missing) ==
  LET unsigned ==
        [shop |-> IF missing = "shop" THEN Absent ELSE Str(shop),
         code |-> IF missing = "code" THEN Absent ELSE AuthCode,
         state |-> IF missing = "state" THEN Absent ELSE state,
         timestamp |-> IF missing = "timestamp" THEN Absent ELSE Timestamp]
      key == IF hmacKind = "platform" THEN "test_secret_key" ELSE ForgedKey
  IN [shop |-> unsigned.shop, code |-> unsigned.code, state |-> unsigned.state,
      timestamp |-> unsigned.timestamp,
      hmac |-> IF missing = "hmac" THEN <<>>
               ELSE <<[key |-> key, msg |-> unsigned]>>]

\* the queries tried: <<shop, state is the cookie's value, hmacKind, missing,
\* isOnline argument>>
QueryShapes ==
  {<<s, TRUE, "platform", "none", o>> : s \in ValidShops, o \in IsOnlineParams}
  \cup {<<s, TRUE, "forged", "none", "undefined">> : s \in ValidShops}
  \cup {<<s, FALSE, "platform", "none", "undefined">> : s \in ValidShops}
  \cup {<<s, TRUE, "platform", "none", "undefined">> : s \in InvalidShops}
  \cup {<<s, TRUE, "platform", m, "undefined">> : s \in ValidShops, m \in QueryParams}

\* the complete queries among them, for a valid shop
CompleteShapes ==
  {sh \in QueryShapes : sh[1] \in ValidShops /\ sh[4] = "none" /\ sh[5] = "undefined"}

\* ----------------------------------------------------------- GraphqlClient
\* ShopifyHeader.AccessToken
AccessTokenHeaderName == "X-Shopify-Access-Token"

\* params.data: a query string or an object, with the number of its
\* characters or of its own properties
GraphqlData == [kind : {"string", "object"}, size : {0, 1}]

\* params.extraHeaders, as the set of its entries: none, another header, the
\* access-token header under its own name, and under a name in lower case
ExtraHeaders ==
  {{},
   {[name |-> "X-Custom", value |-> <<"1">>]},
   {[name |-> "X-Shopify-Access-Token", value |-> <<"caller_token">>]},
   {[name |-> "x-shopify-access-token", value |-> <<"caller_token">>]}}

GraphqlParams == [data : GraphqlData, extraHeaders : ExtraHeaders]

\* the errors field of a response body: not there, null, [] or a list of
\* errors
ErrorsValues == {"absent", "null", "emptyList", "list"}

\* the answers of the HTTP collaborator to the POST of a query
GraphqlAnswers ==
  {[kind |-> "error", errors |-> "absent"]}
  \cup {[kind |-> "ok", errors |-> e] : e \in ErrorsValues}

\* the sessions a client is constructed for: with and without access token
GraphqlSessions ==
  {offlineSession(b, Str(sh), nonce(1)) : b \in {NoBody, OfflineBody},
                                          sh \in ValidShops}

\* a value as the condition of a JavaScript `if`
Truthy(v) == v \in {"emptyList", "list"}

\* Object.entries(data).length
entriesOf(data) == data.size

\* mutant: only the empty string counts as a missing query
emptyData_StringOnly(data) == data.kind = "string" /\ data.size = 0

\* query, its check of params.data
emptyData(data) ==
  \/ data.kind = "string" /\ data.size = 0
  \/ entriesOf(data) = 0

\* the constructor, its check of the session
missingAccessToken(config, session) ==
  ~config.isPrivateApp /\ session.accessToken = Absent

\* mutant: the token of the session is sent for private apps too
getAccessTokenHeader_SessionAlways(config, session) ==
  [name |-> AccessTokenHeaderName, value |-> session.accessToken]

\* getAccessTokenHeader
getAccessTokenHeader(config, session) ==
  [name |-> AccessTokenHeaderName,
   value |-> IF config.isPrivateApp THEN Str(config.apiSecretKey)
             ELSE session.accessToken]

\* {[accessTokenHeader.header]: accessTokenHeader.value, ...extraHeaders}
withExtraHeaders(header, extraHeaders) ==
  extraHeaders \cup
    {h \in {header} : \A e \in extraHeaders : e.name # h.name}

NoGraphqlResult ==
  [op |-> "none", error |-> "none", message |-> Absent, posts |-> <<>>,
   returned |-> <<>>, response |-> <<>>, session |-> <<>>, params |-> <<>>,
   answer |-> <<>>]

\* new GraphqlClient({session})
newGraphqlClient(config, session) ==
  IF missingAccessToken(config, session)
  THEN [NoGraphqlResult EXCEPT
          !.op = "new", !.error = "MissingRequiredArgument",
          !.message = <<"Missing access token when creating GraphQL client">>,
          !.session = <<session>>]
  ELSE [NoGraphqlResult EXCEPT !.op = "new", !.session = <<session>>]

\* GraphqlClient.query of the client constructed for `session`; answer is
\* what the HTTP collaborator does with the POST if it is reached
graphqlQuery(config, session, params, answer) ==
  LET thrown == [NoGraphqlResult EXCEPT !.op = "query",
                                        !.session = <<session>>,
                                        !.params = <<params>>]
  IN
  IF emptyData(params.data)
  THEN [thrown EXCEPT !.error = "MissingRequiredArgument",
                      !.message = <<"Query missing.">>]
  ELSE
    LET extraHeaders == withExtraHeaders(getAccessTokenHeader(config, session),
                                         params.extraHeaders)
        path == <<"/admin/api", "/", config.apiVersion, "/graphql.json">>
        dataType == IF params.data.kind = "object" THEN "JSON" ELSE "GraphQL"
        post == [domain |-> session.shop, path |-> path, type |-> dataType,
                 data |-> params.data, extraHeaders |-> extraHeaders]
        sent == [thrown EXCEPT !.posts = <<post>>, !.answer = <<answer>>]
    IN
    IF answer.kind = "error"
    THEN [sent EXCEPT !.error = "HttpRequestError",
                      !.message = <<"Failed to make Shopify HTTP request">>]
    ELSE IF Truthy(answer.errors)
    THEN [sent EXCEPT !.error = "GraphqlQueryError",
                      !.message = <<"GraphQL query returned errors">>,
                      !.response = <<answer>>]
    ELSE [sent EXCEPT !.returned = <<answer>>]

NoGraphql == [client |-> <<>>, out |-> NoGraphqlResult]

\* ------------------------------------------------------------------ state
VARIABLES
  config,        \* the ConfigInterface of the app
  now,           \* Date.now(), in ms
  jar,           \* per browser: the state cookie it holds
  nextNonce,     \* number of the next nonce() value
  nextUuid,      \* number of the next uuidv4() value
  begun,         \* history: the flows begin started
  signedValues,  \* the values the app has signed into a Set-Cookie so far
  completed,     \* history: the state cookies of begin that completed a callback
  failed,        \* history of SpecFlows: the state cookies of begin with which
                 \* a callback raised InvalidOAuthError
  sessions,      \* history: id, shop, mode and user of the Sessions returned
  gql,           \* the GraphqlClient in use and the result of its last call
  res            \* the result of the last invocation

vars == <<config, now, jar, nextNonce, nextUuid, begun, signedValues,
          completed, failed, sessions, gql, res>>

EmptyJar == [state |-> <<>>]

Init ==
  /\ config \in Configs
  /\ now = 0
  /\ jar = [b \in Browsers |-> EmptyJar]
  /\ nextNonce = 1
  /\ nextUuid = 1
  /\ begun = {}
  /\ signedValues = {}
  /\ completed = {}
  /\ failed = {}
  /\ sessions = {}
  /\ gql = NoGraphql
  /\ res = NoResult

\* the browser stores the cookies of a response it receives
ApplyHeaders(j, headers) ==
  LET named(n) == {h \in headers : h.name = n}
      upd(old, n) ==
        IF named(n) = {} THEN old
        ELSE LET h == CHOOSE x \in named(n) : TRUE
             IN IF IsDeletion(h) THEN <<>> ELSE <<h>>
  IN [state |-> upd(j.state, STATE_COOKIE_NAME)]

\* the Cookie header a browser sends to `path` at time nowMs
CookieSent(j, path, nowMs) ==
  IF /\ j.state # <<>>
     /\ j.state[1].path = path
     /\ nowMs < j.state[1].expires[1].ms
  THEN <<[value |-> j.state[1].value, sig |-> j.state[1].sig]>>
  ELSE <<>>

\* mutant: the state cookie of begin is kept in one jar shared by all browsers
BeginNth_SharedJar(limit, b, shop, callbackPath, isOnline) ==
  /\ res = NoResult
  /\ nextNonce <= limit
  /\ LET params == [shop |-> Str(shop), callbackPath |-> callbackPath,
                    isOnline |-> isOnline]
         state == nonce(nextNonce)
         r == begin(config, params, state, now)
     IN /\ res' = [r EXCEPT !.from = b, !.beginParams = <<params>>, !.at = now]
        /\ IF r.error = "none"
           THEN /\ jar' = [x \in Browsers |-> ApplyHeaders(jar[x], r.headers)]
                /\ nextNonce' = nextNonce + 1
                /\ signedValues' = signedValues \cup {state}
                /\ begun' = begun \cup
                     {[state |-> state, isOnline |-> isOnline]}
           ELSE UNCHANGED <<jar, nextNonce, signedValues, begun>>
  /\ UNCHANGED <<config, now, nextUuid, completed, failed, sessions, gql>>

\* begin, called for browser b, while fewer than `limit` nonces are out
BeginNth(limit, b, shop, callbackPath, isOnline) ==
  /\ res = NoResult
  /\ nextNonce <= limit
  /\ LET params == [shop |-> Str(shop), callbackPath |-> callbackPath,
                    isOnline |-> isOnline]
         state == nonce(nextNonce)
         r == begin(config, params, state, now)
     IN /\ res' = [r EXCEPT !.from = b, !.beginParams = <<params>>, !.at = now]
        /\ IF r.error = "none"
           THEN /\ jar' = [jar EXCEPT ![b] = ApplyHeaders(@, r.headers)]
                /\ nextNonce' = nextNonce + 1
                /\ signedValues' = signedValues \cup {state}
                /\ begun' = begun \cup
                     {[state |-> state, isOnline |-> isOnline]}
           ELSE UNCHANGED <<jar, nextNonce, signedValues, begun>>
  /\ UNCHANGED <<config, now, nextUuid, completed, failed, sessions, gql>>

Begin(b, shop, callbackPath, isOnline) ==
  BeginNth(MaxNonces, b, shop, callbackPath, isOnline)

\* what the history keeps of a returned Session
SessionKey(session) ==
  [id |-> session.id, shop |-> session.shop, isOnline |-> session.isOnline,
   user |-> IF session.onlineAccessInfo = <<>> THEN <<>>
            ELSE session.onlineAccessInfo[1].associated_user]

\* one callback invocation on `request` from `from`; the collaborator's
\* answer and the uuid are drawn only when the invocation reaches them
Invoke(from, request) ==
  LET probe == callback(config, request, ErrorResponse, now, uuidv4(nextUuid))
      reached == probe.posts # <<>>
  IN \E pr \in (IF reached THEN PostResponses ELSE {ErrorResponse}) :
       LET r == callback(config, request, pr, now, uuidv4(nextUuid))
           usesUuid == /\ r.session # <<>>
                       /\ r.session[1].id = uuidv4(nextUuid)
       IN /\ usesUuid => nextUuid <= MaxUuids
          /\ res' = [r EXCEPT !.from = from, !.request = <<request>>,
                              !.at = now,
                              !.replayed = (request.cookie \in completed),
                              !.failedBefore = (request.cookie \in failed),
                              !.idSeen = (r.session # <<>> /\
                                          \E s \in sessions : s.id = r.session[1].id)]
          /\ nextUuid' = IF usesUuid THEN nextUuid + 1 ELSE nextUuid
          /\ completed' = IF /\ r.error = "none"
                             /\ \E st \in begun : st.state = r.stateFromCookie
                          THEN completed \cup {request.cookie}
                          ELSE completed
          /\ sessions' = IF r.session = <<>> THEN sessions
                         ELSE sessions \cup {SessionKey(r.session[1])}
          /\ signedValues' =
               signedValues \cup
                 {h.value : h \in {x \in r.headers : ~IsDeletion(x)}}
          /\ jar' = IF from \in Browsers /\ r.error = "none"
                    THEN [jar EXCEPT ![from] = ApplyHeaders(@, r.headers)]
                    ELSE jar

\* the query of the given shape sent along with `cookie`: its state is the
\* cookie's value, or another value
QueryFor(cookie, shape) ==
  AuthQuery(shape[1],
            IF shape[2] /\ cookie # <<>> THEN cookie[1].value ELSE BogusState,
            shape[3], shape[4])

\* callback, requested by browser b with the cookies of its jar
CallbackFromBrowser(b, path, shape) ==
  /\ res = NoResult
  /\ Invoke(b, [cookie |-> CookieSent(jar[b], path, now),
                query |-> QueryFor(jar[b].state, shape),
                isOnline |-> shape[5], path |-> path])
  /\ UNCHANGED <<config, now, nextNonce, begun, failed, gql>>

\* the Cookie headers a client can make up: a value the app signed with its
\* signature (a replay), a value with a signature under another key, and a
\* value with the signature of another value
RawCookies ==
  {<<[value |-> BogusState, sig |-> createSHA256HMAC(ForgedKey, BogusState)]>>}
  \cup {<<[value |-> v, sig |-> createSHA256HMAC("test_secret_key", v)]>> :
      v \in signedValues}
  \cup {<<[value |-> st.state, sig |-> createSHA256HMAC(ForgedKey, st.state)]>> :
      st \in begun}
  \cup {<<[value |-> BogusState,
           sig |-> createSHA256HMAC("test_secret_key", st.state)]>> :
      st \in begun}

\* callback, requested with a Cookie header of the client's own making
CallbackRaw(cookie, shape) ==
  /\ res = NoResult
  /\ Invoke("raw", [cookie |-> cookie,
                    query |-> QueryFor(cookie, shape),
                    isOnline |-> shape[5], path |-> "/auth/callback"])
  /\ UNCHANGED <<config, now, nextNonce, begun, failed, gql>>

\* the caller takes the result of the invocation
Return ==
  /\ res # NoResult
  /\ res' = NoResult
  /\ UNCHANGED <<config, now, jar, nextNonce, nextUuid, begun, signedValues,
                 completed, failed, sessions, gql>>

\* time passes; the flow reads the clock only for the lifetime of the state
\* cookie, so the clock is advanced while a browser holds an unexpired one
Tick ==
  /\ res = NoResult
  /\ \E b \in Browsers :
       jar[b].state # <<>> /\ now < jar[b].state[1].expires[1].ms
  /\ now < MaxTicks * StateCookieTtlMs
  /\ now' = now + StateCookieTtlMs
  /\ UNCHANGED <<config, jar, nextNonce, nextUuid, begun, signedValues,
                 completed, failed, sessions, gql, res>>

Next ==
  \/ \E b \in Browsers, shop \in Shops, p \in Paths, o \in BOOLEAN :
       Begin(b, shop, p, o)
  \/ \E b \in Browsers, p \in Paths, shape \in QueryShapes :
       CallbackFromBrowser(b, p, shape)
  \/ \E c \in RawCookies, shape \in CompleteShapes : CallbackRaw(c, shape)
  \/ Return
  \/ Tick

Spec == Init /\ [][Next]_vars

\* ------------------------------------------------- concurrent flows
\* Several browsers run the flow at the same time against one app: each
\* begins at the callback path of the app and comes back with the cookies of
\* its own jar and a complete query, possibly tampered with on the way.
BeginFlow(b, shop, isOnline) ==
  BeginNth(MaxFlows, b, shop, "/auth/callback", isOnline)

CallbackInFlow(b, shape) ==
  /\ res = NoResult
  /\ Invoke(b, [cookie |-> CookieSent(jar[b], "/auth/callback", now),
                query |-> QueryFor(jar[b].state, shape),
                isOnline |-> shape[5], path |-> "/auth/callback"])
  /\ failed' = IF /\ res'.error = "InvalidOAuthError"
                  /\ \E st \in begun : st.state = res'.stateFromCookie
               THEN failed \cup {res'.request[1].cookie}
               ELSE failed
  /\ UNCHANGED <<config, now, nextNonce, begun, gql>>

NextFlows ==
  \/ \E b \in Browsers, shop \in ValidShops, o \in BOOLEAN : BeginFlow(b, shop, o)
  \/ \E b \in Browsers, shape \in CompleteShapes : CallbackInFlow(b, shape)
  \/ Return
  \/ Tick

SpecFlows == Init /\ [][NextFlows]_vars

\* ------------------------------------------------- the GraphQL client
oauthVars == <<now, jar, nextNonce, nextUuid, begun, signedValues, completed,
               failed, sessions, res>>

\* the application constructs a client for a session
NewGraphqlClient(session) ==
  /\ gql.out = NoGraphqlResult
  /\ LET r == newGraphqlClient(config, session)
     IN gql' = [client |-> IF r.error = "none" THEN <<session>> ELSE gql.client,
                out |-> r]
  /\ UNCHANGED <<config, oauthVars>>

\* the application sends a query with the client it has; the collaborator's
\* answer is drawn only when the POST is reached
GraphqlQuery(params) ==
  /\ gql.out = NoGraphqlResult
  /\ gql.client # <<>>
  /\ LET probe == graphqlQuery(config, gql.client[1], params,
                               [kind |-> "error", errors |-> "absent"])
     IN \E answer \in (IF probe.posts # <<>> THEN GraphqlAnswers
                       ELSE {[kind |-> "error", errors |-> "absent"]}) :
          gql' = [gql EXCEPT
                    !.out = graphqlQuery(config, gql.client[1], params, answer)]
  /\ UNCHANGED <<config, oauthVars>>

\* the caller takes the result of the call
GraphqlReturn ==
  /\ gql.out # NoGraphqlResult
  /\ gql' = [gql EXCEPT !.out = NoGraphqlResult]
  /\ UNCHANGED <<config, oauthVars>>

NextGraphql ==
  \/ \E session \in GraphqlSessions : NewGraphqlClient(session)
  \/ \E params \in GraphqlParams : GraphqlQuery(params)
  \/ GraphqlReturn

SpecGraphql == Init /\ [][NextGraphql]_vars

\* ------------------------------------------------------------- properties
IsCallback == res.op = "callback"
Completed == res.op = "callback" /\ res.error = "none"
BeginDone == res.op = "begin" /\ res.error = "none"

\* the request's state cookie carries a signature of its value under the
\* app secret
Verified(cookie) ==
  /\ cookie # <<>>
  /\ cookie[1].value # <<>>
  /\ cookie[1].sig = [key |-> "test_secret_key", value |-> cookie[1].value]

\* the query's hmac is the MAC of its other parameters under the app secret
HmacOk(query) ==
  query.hmac = <<[key |-> "test_secret_key",
                  msg |-> [shop |-> query.shop, code |-> query.code,
                           state |-> query.state,
                           timestamp |-> query.timestamp]]>>

NothingProduced ==
  /\ res.posts = <<>>
  /\ res.session = <<>>
  /\ res.headers = {}
  /\ res.location = <<>>

C2_CompletesOnlyForIssuedNonce ==
  Completed =>
    LET cookie == res.request[1].cookie
    IN /\ Verified(cookie)
       /\ \E st \in begun : /\ cookie[1].value = st.state
                             /\ res.request[1].query.state = st.state

\* C3: with a verified state cookie, a query whose HMAC does not validate or
\* whose state differs from the cookie value raises InvalidOAuthError, with
\* no token-exchange request and no Session.
C3_InvalidQueryRaisesInvalidOAuth ==
  (/\ IsCallback
   /\ ~config.isPrivateApp
   /\ Verified(res.request[1].cookie)
   /\ \/ ~HmacOk(res.request[1].query)
      \/ res.request[1].query.state # res.request[1].cookie[1].value)
  => (res.error = "InvalidOAuthError" /\ NothingProduced)

C3_Witness ==
  /\ IsCallback
  /\ Verified(res.request[1].cookie)
  /\ HmacOk(res.request[1].query)
  /\ res.request[1].query.state # res.request[1].cookie[1].value
  /\ res.error = "InvalidOAuthError"

\* C4: a missing or unverifiable state cookie raises CookieNotFound before the
\* query is validated, with no token-exchange request and no Session.
C4_NoCookieRaisesCookieNotFound ==
  (IsCallback /\ ~config.isPrivateApp /\ ~Verified(res.request[1].cookie))
  => /\ res.error = "CookieNotFound"
     /\ \A i \in 1..Len(res.steps) : res.steps[i] # "validQuery"
     /\ NothingProduced

C4_Witness ==
  /\ IsCallback
  /\ res.request[1].cookie # <<>>
  /\ ~Verified(res.request[1].cookie)
  /\ HmacOk(res.request[1].query)
  /\ res.error = "CookieNotFound"

\* C5: in a private app begin and callback raise PrivateAppError as their
\* first step: no cookie set, read or deleted, no redirect, no token
\* exchange, no Session.
C5_PrivateAppRaisesFirst ==
  config.isPrivateApp =>
    /\ res.op \in {"begin", "callback"} =>
         /\ res.error = "PrivateAppError"
         /\ res.steps = <<"throwIfPrivateApp">>
         /\ res.status = 0
         /\ NothingProduced
    /\ \A b \in Browsers : jar[b].state = <<>>
    /\ signedValues = {}

C5_Witness ==
  /\ config.isPrivateApp
  /\ IsCallback
  /\ res.request[1].cookie # <<>>
  /\ res.error = "PrivateAppError"

\* C6: after a successful begin the state parameter of the redirect Location
\* equals the value signed into the state cookie of the same response.
C6_RedirectStateIsSignedState ==
  BeginDone =>
    \E h \in res.headers :
      /\ h.name = "shopify_app_state"
      /\ h.value # <<>>
      /\ h.sig = [key |-> "test_secret_key", value |-> h.value]
      /\ res.location[1].query.state = h.value

C6_Witness == BeginDone /\ res.location[1].query.state = <<"nonce", "1">>

\* C7: a successful begin returns 302 with Location
\* https://<shop>/admin/oauth/authorize, client_id = apiKey, scope = the
\* configured scopes, redirect_uri = hostScheme://hostName + callbackPath,
\* grant_options[] = per-user exactly when isOnline, and the Set-Cookie of
\* the signed state.
C7_BeginRedirect ==
  BeginDone =>
    LET params == res.beginParams[1]
        url == res.location[1]
    IN /\ res.status = 302
       /\ url.scheme = "https"
       /\ params.shop \in {<<s>> : s \in ValidShops}
       /\ url.host = params.shop
       /\ url.path = "/admin/oauth/authorize"
       /\ url.query.client_id = <<"test_key">>
       /\ url.query.scope = <<"read_products", ",", "write_orders">>
       /\ url.query.redirect_uri =
            <<"https", "://", "my-test-app.myshopify.io", params.callbackPath>>
       /\ (url.query.grant_options = <<"per-user">>) <=> params.isOnline
       /\ (url.query.grant_options = <<>>) <=> ~params.isOnline
       /\ \E h \in res.headers :
            /\ h.name = "shopify_app_state"
            /\ h.sig = [key |-> "test_secret_key", value |-> h.value]
            /\ h.path = params.callbackPath

C7_Witness ==
  /\ BeginDone
  /\ res.beginParams[1].isOnline
  /\ res.beginParams[1].callbackPath = "/other"
  /\ res.location[1].query.grant_options = <<"per-user">>

\* C8: every Session callback returns has isOnline true iff onlineAccessInfo
\* is present iff expires is present.
C8_SessionConsistentWithIsOnline ==
  Completed =>
    LET session == res.session[1]
    IN /\ session.isOnline <=> session.onlineAccessInfo # <<>>
       /\ session.isOnline <=> session.expires # <<>>

C8_Witness ==
  /\ Completed
  /\ res.session[1].isOnline
  /\ res.session[1].expires # <<>>

\* C9: the access mode of the returned Session is decided by the presence of
\* associated_user in the token-exchange response alone, whatever the
\* isOnline argument of callback and the isOnline flag begin was given.
C9_AccessModeFromAssociatedUser ==
  Completed =>
    (res.session[1].isOnline <=>
       res.postResponse[1].body.associated_user # <<>>)

C9_Witness ==
  /\ Completed
  /\ res.session[1].isOnline
  /\ res.request[1].isOnline = "false"
  /\ \E st \in begun : st.state = res.session[1].state /\ ~st.isOnline

\* C10: a valid callback whose token-exchange response has no associated_user
\* returns a Session with isOnline false, id "offline_" + shop, accessToken
\* and scope of the response, state of the cookie, no expires and no
\* onlineAccessInfo.
C10_OfflineSession ==
  (Completed /\ res.postResponse[1].body.associated_user = <<>>) =>
    LET session == res.session[1]
        body == res.postResponse[1].body
    IN /\ session.isOnline = FALSE
       /\ res.request[1].query.shop \in {<<s>> : s \in ValidShops}
       /\ session.id = <<"offline_">> \o res.request[1].query.shop
       /\ session.accessToken = body.access_token
       /\ session.scope = body.scope
       /\ session.state = res.request[1].cookie[1].value
       /\ session.expires = <<>>
       /\ session.onlineAccessInfo = <<>>

C10_Witness ==
  /\ Completed
  /\ ~res.session[1].isOnline
  /\ res.session[1].accessToken = <<"tok">>
  /\ res.session[1].id = <<"offline_", "shop1.myshopify.io">>

\* C11: a valid callback whose token-exchange response has an associated_user
\* returns a Session with isOnline true, accessToken and scope of the
\* response, expires at the time of the callback plus expires_in seconds, and
\* onlineAccessInfo the response without access_token and scope.
C11_OnlineSession ==
  (Completed /\ res.postResponse[1].body.associated_user # <<>>) =>
    LET session == res.session[1]
        body == res.postResponse[1].body
    IN /\ session.isOnline = TRUE
       /\ session.accessToken = body.access_token
       /\ session.scope = body.scope
       /\ session.expires =
            <<[valid |-> TRUE, ms |-> res.at + body.expires_in[1] * 1000]>>
       /\ session.onlineAccessInfo =
            <<[expires_in |-> body.expires_in,
               associated_user |-> body.associated_user]>>

C11_Witness ==
  /\ Completed
  /\ res.at = StateCookieTtlMs
  /\ res.session[1].isOnline
  /\ res.session[1].accessToken = <<"tok">>
  /\ res.session[1].expires = <<[valid |-> TRUE, ms |-> 60000 + 86400000]>>

\* C12: two completed callbacks with offline responses for the same shop
\* return the same Session id; two with online responses for the same shop
\* and user return the same id when the app is embedded and a fresh id each
\* when it is not.
C12_SessionIdDerivation ==
  Completed =>
    LET session == res.session[1]
        user == IF session.isOnline
                THEN session.onlineAccessInfo[1].associated_user ELSE <<>>
        alike == {s \in sessions : /\ s.shop = session.shop
                                    /\ s.isOnline = session.isOnline
                                    /\ s.user = user}
    IN IF session.isOnline /\ ~config.isEmbeddedApp
       THEN ~res.idSeen
       ELSE \A s \in alike : s.id = session.id

C12_Witness ==
  /\ Completed
  /\ ~config.isEmbeddedApp
  /\ res.session[1].isOnline
  /\ \E s \in sessions :
       /\ s.isOnline
       /\ s.shop = res.session[1].shop
       /\ s.user = res.session[1].onlineAccessInfo[1].associated_user
       /\ s.id # res.session[1].id

\* C13: the headers of a completed callback hold a signed session cookie
\* exactly when isEmbeddedApp is false, and its value is the id of the
\* returned Session, not the access token.
C13_SessionCookieIffNotEmbedded ==
  Completed =>
    LET session == res.session[1]
        cookies == {h \in res.headers : h.name = "shopify_app_session"}
    IN /\ (cookies # {}) <=> ~config.isEmbeddedApp
       /\ \A h \in cookies :
            /\ h.value = session.id
            /\ h.sig = [key |-> "test_secret_key", value |-> session.id]
            /\ h.value # session.accessToken

C13_Witness ==
  /\ Completed
  /\ ~config.isEmbeddedApp
  /\ res.session[1].accessToken = <<"tok">>
  /\ \E h \in res.headers :
       h.name = "shopify_app_session" /\ h.value = res.session[1].id

\* C14: when the token exchange fails, that is the HTTP collaborator raises,
\* callback propagates an error and returns neither a Session nor headers.
C14_ExchangeFailurePropagates ==
  (IsCallback /\ res.postResponse # <<>> /\ res.postResponse[1].kind = "error") =>
    /\ res.error # "none"
    /\ res.session = <<>>
    /\ res.headers = {}

C14_Witness ==
  /\ IsCallback
  /\ res.postResponse = <<ErrorResponse>>
  /\ Len(res.posts) = 1
  /\ res.error = "HttpRequestError"

\* C15: a callback whose token-exchange response has a malformed body, that
\* is one without access_token, raises TokenExchangeFailed and returns no
\* Session.
C15_MalformedBodyRaisesTokenExchangeFailed ==
  (/\ IsCallback
   /\ res.postResponse # <<>>
   /\ res.postResponse[1].kind = "ok"
   /\ res.postResponse[1].body.access_token = Absent) =>
    (res.error = "TokenExchangeFailed" /\ res.session = <<>>)

\* C16: a callback whose query lacks one of shop, code, state, hmac and
\* timestamp returns no Session.
C16_IncompleteQueryNoSession ==
  (IsCallback /\ \E p \in QueryParams : res.request[1].query[p] = <<>>) =>
    res.session = <<>>

C18_FailedIsAbsorbing ==
  (IsCallback /\ res.failedBefore) => res.error # "none"

\* the steps of callback, in the order of its code
StepOrder ==
  <<"throwIfPrivateApp", "getAndVerify", "deleteCookie", "validQuery",
    "sanitizeShop", "post", "createSession", "setAndSign">>

\* C19: the steps of one callback run in a fixed order: private-app check,
\* read and deletion of the state cookie, cookie-presence check, HMAC and
\* state validation, shop sanitization, token exchange, construction of the
\* Session, write of the session cookie. The token-exchange request is sent
\* only after the cookie, HMAC and state checks passed, and the Session is
\* constructed only after the token exchange returned.
C19_StepOrder ==
  IsCallback =>
    /\ \E n \in 0..Len(StepOrder) : res.steps = SubSeq(StepOrder, 1, n)
    /\ res.posts # <<>> =>
         /\ Verified(res.request[1].cookie)
         /\ HmacOk(res.request[1].query)
         /\ res.request[1].query.state = res.request[1].cookie[1].value
    /\ res.session # <<>> =>
         /\ res.posts # <<>>
         /\ res.postResponse # <<>>
         /\ res.postResponse[1].kind = "ok"

C19_Witness ==
  /\ Completed
  /\ res.steps = StepOrder
  /\ Len(res.posts) = 1
  /\ HmacOk(res.request[1].query)

\* C20: begin performs no network call, a callback performs at most one
\* token-exchange request, and a callback that ends in an error has not
\* sent the request again.
C20_AtMostOneExchange ==
  /\ res.op = "begin" => res.posts = <<>>
  /\ IsCallback => Len(res.posts) <= 1

C20_Witness ==
  /\ IsCallback
  /\ res.error # "none"
  /\ res.posts # <<>>
  /\ res.posts[1].path = "/admin/oauth/access_token"

\* C21: the state cookie begin sets has callbackPath as its path and expires
\* 60 seconds after begin; a callback a browser requests on another path, or
\* once the cookie has expired, comes without the cookie and raises
\* CookieNotFound.
C21_StateCookieScope ==
  /\ BeginDone =>
       /\ \E h \in res.headers : h.name = "shopify_app_state"
       /\ \A h \in res.headers :
            h.name = "shopify_app_state" =>
              /\ h.path = res.beginParams[1].callbackPath
              /\ h.expires = <<[valid |-> TRUE, ms |-> res.at + 60000]>>
  /\ (IsCallback /\ res.from \in Browsers) =>
       LET held == jar[res.from].state
       IN (/\ held # <<>>
           /\ \/ held[1].path # res.request[1].path
              \/ res.at >= held[1].expires[1].ms) =>
            /\ res.request[1].cookie = <<>>
            /\ res.error = "CookieNotFound"

C21_Witness ==
  /\ IsCallback
  /\ res.from \in Browsers
  /\ jar[res.from].state # <<>>
  /\ jar[res.from].state[1].path = res.request[1].path
  /\ res.at >= jar[res.from].state[1].expires[1].ms
  /\ res.error = "CookieNotFound"

\* C22: the shop is validated before it goes into a URL or an id: begin with
\* an invalid shop fails before a state cookie is set or a redirect URL is
\* built, callback with an invalid shop in the query fails before the
\* token-exchange request is sent, and the shop and id of every returned
\* Session are built from a sanitized shop.
C22_ShopValidatedFirst ==
  LET valid == {Str(sh) : sh \in ValidShops}
  IN /\ (res.op = "begin" /\ res.beginParams[1].shop \notin valid) =>
          (res.error # "none" /\ NothingProduced)
     /\ BeginDone => res.location[1].host \in valid
     /\ (IsCallback /\ res.request[1].query.shop \notin valid) =>
          /\ res.error # "none"
          /\ res.posts = <<>>
          /\ res.session = <<>>
     /\ \A i \in 1..Len(res.posts) : res.posts[i].domain \in valid
     /\ Completed =>
          LET session == res.session[1]
          IN /\ session.shop \in valid
             /\ session.shop = res.request[1].query.shop
             /\ \/ session.id = <<"offline_">> \o session.shop
                \/ /\ session.isOnline
                   /\ session.id = session.shop \o <<"_">> \o
                        session.onlineAccessInfo[1].associated_user[1].id
                \/ session.isOnline /\ \E n \in 1..MaxUuids : session.id = uuidv4(n)

C22_Witness ==
  /\ IsCallback
  /\ res.request[1].query.shop = <<"evil.example.com">>
  /\ HmacOk(res.request[1].query)
  /\ res.error = "InvalidShopError"
  /\ res.posts = <<>>

C24_RejectsUnusableInput ==
  LET out == gql.out
  IN /\ out.op = "new" =>
          /\ out.posts = <<>>
          /\ IF ~config.isPrivateApp /\ out.session[1].accessToken = <<>>
             THEN /\ out.error = "MissingRequiredArgument"
                  /\ gql.client # out.session
             ELSE /\ out.error = "none"
                  /\ gql.client = out.session
     /\ (out.op = "query" /\ out.params[1].data.size = 0) =>
          /\ out.error = "MissingRequiredArgument"
          /\ out.posts = <<>>
          /\ out.returned = <<>>

C24_Witness ==
  /\ gql.out.op = "query"
  /\ gql.out.params[1].data = [kind |-> "object", size |-> 0]
  /\ gql.out.error = "MissingRequiredArgument"
  /\ gql.out.posts = <<>>

\* C25 (as stated): query sends exactly one POST to
\* /admin/api/<apiVersion>/graphql.json with the access-token header
\* (apiSecretKey for private apps, the accessToken of the session otherwise)
\* unless extraHeaders has a header of that name, whose value is sent then;
\* it returns the result only when the response body has no errors field and
\* raises GraphqlQueryError otherwise.
C25_ReturnsOnlyWithoutErrorsField ==
  (gql.out.op = "query" /\ gql.out.params[1].data.size > 0) =>
    LET out == gql.out
        session == out.session[1]
        given == {h \in out.params[1].extraHeaders :
                    h.name = "X-Shopify-Access-Token"}
        sent == {h \in out.posts[1].extraHeaders :
                   h.name = "X-Shopify-Access-Token"}
        token == IF config.isPrivateApp THEN <<"test_secret_key">>
                 ELSE session.accessToken
    IN /\ Len(out.posts) = 1
       /\ out.posts[1].path = <<"/admin/api", "/", "2022-10", "/graphql.json">>
       /\ out.posts[1].domain = session.shop
       /\ out.params[1].extraHeaders \subseteq out.posts[1].extraHeaders
       /\ IF given = {}
          THEN sent = {[name |-> "X-Shopify-Access-Token", value |-> token]}
          ELSE sent = given
       /\ out.answer[1].kind = "ok" =>
            IF out.answer[1].errors = "absent"
            THEN out.error = "none" /\ out.returned = out.answer
            ELSE out.error = "GraphqlQueryError" /\ out.returned = <<>>

\* C25 (amended): the same, but the result is returned when the errors field
\* of the response body is absent or falsy (null), and GraphqlQueryError is
\* raised when it is truthy (a list, the empty list included).
C25_ReturnsUnlessTruthyErrors ==
  (gql.out.op = "query" /\ gql.out.params[1].data.size > 0) =>
    LET out == gql.out
        session == out.session[1]
        given == {h \in out.params[1].extraHeaders :
                    h.name = "X-Shopify-Access-Token"}
        sent == {h \in out.posts[1].extraHeaders :
                   h.name = "X-Shopify-Access-Token"}
        token == IF config.isPrivateApp THEN <<"test_secret_key">>
                 ELSE session.accessToken
    IN /\ Len(out.posts) = 1
       /\ out.posts[1].path = <<"/admin/api", "/", "2022-10", "/graphql.json">>
       /\ out.posts[1].domain = session.shop
       /\ out.params[1].extraHeaders \subseteq out.posts[1].extraHeaders
       /\ IF given = {}
          THEN sent = {[name |-> "X-Shopify-Access-Token", value |-> token]}
          ELSE sent = given
       /\ out.answer[1].kind = "ok" =>
            IF out.answer[1].errors \in {"absent", "null"}
            THEN out.error = "none" /\ out.returned = out.answer
            ELSE /\ out.error = "GraphqlQueryError"
                 /\ out.returned = <<>>
                 /\ out.response = out.answer

C25_Witness ==
  /\ gql.out.op = "query"
  /\ config.isPrivateApp
  /\ Len(gql.out.posts) = 1
  /\ [name |-> "X-Shopify-Access-Token", value |-> <<"test_secret_key">>]
       \in gql.out.posts[1].extraHeaders
  /\ gql.out.answer[1].errors = "null"
  /\ gql.out.returned # <<>>
====
